---- MODULE Spec2Model ----
(***************************************************************************)
(* Model of the financial orchestrator (src/src/orchestrator/agent.py):    *)
(* the routing decision (_determine_agents), the agent invocation client   *)
(* (_call_agent_via_a2a) and the response aggregation of run_async.        *)
(*                                                                         *)
(* Spec follows one request through run_async.  FnSpec applies             *)
(* _determine_agents and _call_agent_via_a2a to inputs drawn in the        *)
(* initial state and keeps input and result side by side.                  *)
(*                                                                         *)
(* Text is modelled as a sequence of one-character strings, so that        *)
(* lower-casing, stripping, substring search and concatenation are         *)
(* computed, not assumed.  JSON values and Python exceptions are tagged    *)
(* records.                                                                *)
(***************************************************************************)
EXTENDS Integers, Sequences, FiniteSets, TLC

(***************************************************************************)
(* Bounds of the model.                                                    *)
(***************************************************************************)
\* number of fragments a generated query is concatenated from
MaxQueryFrags == 2
\* number of fragments a generated model reply is concatenated from
MaxReplyFrags == 2
\* number of artifacts in a generated specialist response
MaxArtifacts == 2
\* number of parts in an artifact of a generated specialist response
MaxParts == 2
\* longest duration (in seconds) of a specialist call that does not time out
MaxDur == 2
MaxMsgParts == 2
MaxSetupCalls == 3
MaxCliRuns == 2

(***************************************************************************)
(* Python string operations on character sequences.                        *)
(***************************************************************************)
LowerChar(c) ==
    CASE c = "A" -> "a" [] c = "B" -> "b" [] c = "C" -> "c" [] c = "D" -> "d"
      [] c = "E" -> "e" [] c = "F" -> "f" [] c = "G" -> "g" [] c = "H" -> "h"
      [] c = "I" -> "i" [] c = "J" -> "j" [] c = "K" -> "k" [] c = "L" -> "l"
      [] c = "M" -> "m" [] c = "N" -> "n" [] c = "O" -> "o" [] c = "P" -> "p"
      [] c = "Q" -> "q" [] c = "R" -> "r" [] c = "S" -> "s" [] c = "T" -> "t"
      [] c = "U" -> "u" [] c = "V" -> "v" [] c = "W" -> "w" [] c = "X" -> "x"
      [] c = "Y" -> "y" [] c = "Z" -> "z" [] OTHER -> c

\* str.lower()
LowerStr(s) == [i \in 1..Len(s) |-> LowerChar(s[i])]

\* the characters str.strip() removes
IsSpace(c) == c \in {" ", "\n", "\t", "\r"}

\* str.strip()
RECURSIVE Strip(_)
Strip(s) ==
    IF Len(s) = 0 THEN s
    ELSE IF IsSpace(s[1]) THEN Strip(Tail(s))
    ELSE IF IsSpace(s[Len(s)]) THEN Strip(SubSeq(s, 1, Len(s) - 1))
    ELSE s

\* sub in s, for strings
Contains(s, sub) ==
    \E i \in 0..(Len(s) - Len(sub)) : SubSeq(s, i + 1, i + Len(sub)) = sub

\* any(phrase in s for phrase in phrases)
AnyPhraseIn(phrases, s) ==
    \E i \in 1..Len(phrases) : Contains(s, phrases[i])

\* x in lst, for a list of agent names
InList(x, lst) == \E i \in 1..Len(lst) : lst[i] = x

\* all concatenations of at most n fragments
RECURSIVE FragSeqs(_, _)
FragSeqs(frags, n) ==
    IF n = 0 THEN {<<>>}
    ELSE LET shorter == FragSeqs(frags, n - 1)
         IN  shorter \cup {f \o s : f \in frags, s \in shorter}

(***************************************************************************)
(* Python exceptions and results of a guarded computation.                 *)
(***************************************************************************)
Return(v) == [ok |-> TRUE, v |-> v]
Raise(e, msg) == [ok |-> FALSE, exc |-> e, msg |-> msg]

\* the classes derived from Exception that the modelled calls can raise
ExceptionClasses ==
    {"APIConnectionError", "APITimeoutError", "IndexError", "AttributeError",
     "TypeError", "KeyError", "ConnectError", "ReadTimeout", "HTTPStatusError",
     "JSONDecodeError"}

(***************************************************************************)
(* _determine_agents                                                       *)
(***************************************************************************)
KwAnalyze == <<"a","n","a","l","y","z","e">>
KwAnalysis == <<"a","n","a","l","y","s","i","s">>
KwBoth == <<"b","o","t","h">>
KwBullAndBear == <<"b","u","l","l"," ","a","n","d"," ","b","e","a","r">>
KwProsAndCons == <<"p","r","o","s"," ","a","n","d"," ","c","o","n","s">>
KwOppsAndRisks ==
    <<"o","p","p","o","r","t","u","n","i","t","i","e","s"," ","a","n","d"," ",
      "r","i","s","k","s">>
KwBear == <<"b","e","a","r">>
KwBull == <<"b","u","l","l">>

BothAgents == <<"bull_analyst", "bear_analyst">>
BearOnly == <<"bear_analyst">>
BullOnly == <<"bull_analyst">>

\* the phrases of the first fast-path test
AnalysisPhrases == <<KwAnalyze, KwAnalysis>>

MutBothPhrases == <<KwBoth, KwBullAndBear, KwOppsAndRisks>>
\* the phrases of the second fast-path test
BothPhrases == <<KwBoth, KwBullAndBear, KwProsAndCons, KwOppsAndRisks>>

\* the fast path: both tests on the lower-cased query
FastPath(query) ==
    LET query_lower == LowerStr(query)
    IN  \/ AnyPhraseIn(AnalysisPhrases, query_lower)
        \/ AnyPhraseIn(BothPhrases, query_lower)

MutParseRouting(agent_response) ==
    IF Contains(agent_response, KwBoth) THEN BothAgents
    ELSE IF Contains(agent_response, KwBull) THEN BullOnly
    ELSE IF Contains(agent_response, KwBear) THEN BearOnly
    ELSE BothAgents
\* the if/elif chain on the model's reply
ParseRouting(agent_response) ==
    IF Contains(agent_response, KwBoth) THEN BothAgents
    ELSE IF Contains(agent_response, KwBear) THEN BearOnly
    ELSE IF Contains(agent_response, KwBull) THEN BullOnly
    ELSE BothAgents

\* a content block of a model response: a text block has .text, a tool_use
\* block has not
TextBlock(t) == [type |-> "text", text |-> t]
ToolUseBlock == [type |-> "tool_use"]
HasAttrText(b) == "text" \in DOMAIN b

\* response.content[0].text of a messages.create outcome m
FirstText(m) ==
    IF m.kind = "raise" THEN Raise(m.exc, m.msg)
    ELSE IF Len(m.content) = 0
         THEN Raise("IndexError", <<"l","i","s","t"," ","i","n","d","e","x">>)
    ELSE IF ~HasAttrText(m.content[1])
         THEN Raise("AttributeError", <<"t","e","x","t">>)
    ELSE Return(m.content[1].text)

\* the body of the try block of _determine_agents
TryRouting(m) ==
    LET t == FirstText(m)
    IN  IF t.ok THEN Return(ParseRouting(LowerStr(Strip(t.v)))) ELSE t

\* except Exception, in _determine_agents
RoutingCatches(e) == e \in ExceptionClasses

MutRoutingDefault == BullOnly
\* the value returned by the except branch
RoutingDefault == BothAgents

\* _determine_agents(query), the model answering m if it is asked:
\* the list returned, the number of model calls made, the exception escaping
DetermineAgents(query, m) ==
    IF FastPath(query)
    THEN [agents |-> BothAgents, calls |-> 0, raised |-> FALSE]
    ELSE LET r == TryRouting(m)
         IN  IF r.ok THEN [agents |-> r.v, calls |-> 1, raised |-> FALSE]
             ELSE IF RoutingCatches(r.exc)
                  THEN [agents |-> RoutingDefault, calls |-> 1, raised |-> FALSE]
             ELSE [agents |-> <<>>, calls |-> 1, raised |-> TRUE]

(***************************************************************************)
(* JSON values as Python sees them after response.json().                  *)
(***************************************************************************)
JNull == [t |-> "null"]
JStr(s) == [t |-> "str", s |-> s]
JNum(n) == [t |-> "num", n |-> n]
JArr(a) == [t |-> "arr", a |-> a]
JObj(o) == [t |-> "obj", o |-> o]

EmptyStr == JStr(<<>>)

\* the characters of the string literals the client uses as keys
KeyChars(k) ==
    CASE k = "result" -> <<"r","e","s","u","l","t">>
      [] k = "artifacts" -> <<"a","r","t","i","f","a","c","t","s">>
      [] k = "parts" -> <<"p","a","r","t","s">>
      [] k = "text" -> <<"t","e","x","t">>
      [] k = "kind" -> <<"k","i","n","d">>

\* bool(v)
PyTruthy(v) ==
    CASE v.t = "null" -> FALSE
      [] v.t = "str" -> Len(v.s) > 0
      [] v.t = "num" -> v.n # 0
      [] v.t = "arr" -> Len(v.a) > 0
      [] v.t = "obj" -> DOMAIN v.o # {}

\* k in v, for a string literal k: key of a dict, element of a list,
\* substring of a string, TypeError otherwise
PyIn(k, v) ==
    CASE v.t = "obj" -> Return(k \in DOMAIN v.o)
      [] v.t = "arr" ->
           Return(\E i \in 1..Len(v.a) :
                     v.a[i].t = "str" /\ v.a[i].s = KeyChars(k))
      [] v.t = "str" -> Return(Contains(v.s, KeyChars(k)))
      [] OTHER -> Raise("TypeError", <<"n","o","t"," ","i","t","e","r","a","b","l","e">>)

\* v[k], for a string literal k
PyGetItem(v, k) ==
    CASE v.t = "obj" ->
           IF k \in DOMAIN v.o THEN Return(v.o[k])
           ELSE Raise("KeyError", KeyChars(k))
      [] OTHER -> Raise("TypeError", <<"i","n","d","i","c","e","s">>)

\* v[0]
PyFirst(v) ==
    CASE v.t = "arr" ->
           IF Len(v.a) > 0 THEN Return(v.a[1])
           ELSE Raise("IndexError", <<"l","i","s","t"," ","i","n","d","e","x">>)
      [] v.t = "str" ->
           IF Len(v.s) > 0 THEN Return(JStr(<<v.s[1]>>))
           ELSE Raise("IndexError", <<"s","t","r"," ","i","n","d","e","x">>)
      [] v.t = "obj" -> Raise("KeyError", <<"0">>)
      [] OTHER -> Raise("TypeError", <<"s","u","b","s","c","r","i","p","t">>)

\* v.get(k): only a dict has the method
PyDictGet(v, k) ==
    CASE v.t = "obj" -> Return(IF k \in DOMAIN v.o THEN v.o[k] ELSE JNull)
      [] OTHER -> Raise("AttributeError", <<"g","e","t">>)

\* v == "text"
IsTextLiteral(v) == v.t = "str" /\ v.s = KeyChars("text")

(***************************************************************************)
(* _call_agent_via_a2a                                                     *)
(***************************************************************************)
\* the timeout given to httpx.AsyncClient, in seconds
CallTimeout == 120

\* response.raise_for_status() passes
IsSuccess(status) == status \in 200..299

\* part.get("kind") == "text" and "text" in part
PartHasText(part) ==
    LET kind == PyDictGet(part, "kind")
    IN  IF ~kind.ok THEN kind
        ELSE IF ~IsTextLiteral(kind.v) THEN Return(FALSE)
        ELSE PyIn("text", part)

\* the innermost two ifs: the first part of the artifact
TextOfArtifact(artifact) ==
    LET hasParts == PyIn("parts", artifact)
    IN  IF ~hasParts.ok THEN hasParts
        ELSE IF ~hasParts.v THEN Return(EmptyStr)
        ELSE LET parts == PyGetItem(artifact, "parts")
             IN  IF ~parts.ok THEN parts
                 ELSE IF ~PyTruthy(parts.v) THEN Return(EmptyStr)
                 ELSE LET part == PyFirst(parts.v)
                      IN  IF ~part.ok THEN part
                          ELSE LET has == PartHasText(part.v)
                               IN  IF ~has.ok THEN has
                                   ELSE IF ~has.v THEN Return(EmptyStr)
                                   ELSE PyGetItem(part.v, "text")

\* the extraction of the text from the parsed body; falling out of the ifs
\* reaches the return "" after the with block
ExtractText(result) ==
    LET hasResult == PyIn("result", result)
    IN  IF ~hasResult.ok THEN hasResult
        ELSE IF ~hasResult.v THEN Return(EmptyStr)
        ELSE LET res == PyGetItem(result, "result")
             IN  IF ~res.ok THEN res
                 ELSE LET hasArts == PyIn("artifacts", res.v)
                      IN  IF ~hasArts.ok THEN hasArts
                          ELSE IF ~hasArts.v THEN Return(EmptyStr)
                          ELSE LET arts == PyGetItem(res.v, "artifacts")
                               IN  IF ~arts.ok THEN arts
                                   ELSE IF ~PyTruthy(arts.v) THEN Return(EmptyStr)
                                   ELSE LET artifact == PyFirst(arts.v)
                                        IN  IF ~artifact.ok THEN artifact
                                            ELSE TextOfArtifact(artifact.v)

\* the body of the try block: post, raise_for_status, json, extraction.
\* o is what the network and the remote agent do with the request
TryCall(o) ==
    IF o.kind = "raise" THEN Raise(o.exc, o.msg)
    ELSE IF ~IsSuccess(o.status)
         THEN Raise("HTTPStatusError", <<"s","t","a","t","u","s">>)
    ELSE IF ~o.isjson
         THEN Raise("JSONDecodeError", <<"E","x","p","e","c","t","i","n","g">>)
    ELSE ExtractText(o.json)

MutAgentCatches(e) == e \in {"ConnectError", "ReadTimeout", "HTTPStatusError"}
\* except Exception, in _call_agent_via_a2a
AgentCatches(e) == e \in ExceptionClasses

\* _call_agent_via_a2a: the value returned, and whether an exception escapes
CallAgentViaA2A(o) ==
    LET r == TryCall(o)
    IN  IF r.ok THEN [ret |-> r.v, raised |-> FALSE]
        ELSE IF AgentCatches(r.exc) THEN [ret |-> EmptyStr, raised |-> FALSE]
        ELSE [ret |-> EmptyStr, raised |-> TRUE]

\* the time the call takes: the timeout when it times out
CallDuration(o) == IF o.kind = "raise" /\ o.exc = "ReadTimeout" THEN CallTimeout ELSE o.dur

(***************************************************************************)
(* The response aggregation of run_async.                                  *)
(***************************************************************************)
HdrBull == <<"#","#"," ","B","u","l","l"," ","C","a","s","e","\n","\n">>
HdrBear == <<"#","#"," ","B","e","a","r"," ","C","a","s","e","\n","\n">>
Rule == <<"\n","\n","-","-","-","\n","\n">>
ErrPrefix ==
    <<"E","r","r","o","r"," ","g","e","n","e","r","a","t","i","n","g"," ",
      "r","e","s","p","o","n","s","e",":"," ">>
MutNoQueryText == <<"N","o"," ","q","u","e","r","y">>
NoQueryText == <<"N","o"," ","q","u","e","r","y"," ","p","r","o","v","i","d","e","d">>

Digit(n) ==
    CASE n = 0 -> "0" [] n = 1 -> "1" [] n = 2 -> "2" [] n = 3 -> "3"
      [] n = 4 -> "4" [] n = 5 -> "5" [] n = 6 -> "6" [] n = 7 -> "7"
      [] n = 8 -> "8" [] n = 9 -> "9"

RECURSIVE NatStr(_)
NatStr(n) == IF n < 10 THEN <<Digit(n)>> ELSE NatStr(n \div 10) \o <<Digit(n % 10)>>

\* str(v), as an f-string formats a value returned by the client
PyFormat(v) ==
    CASE v.t = "str" -> v.s
      [] v.t = "num" -> IF v.n < 0 THEN <<"-">> \o NatStr(-v.n) ELSE NatStr(v.n)
      [] v.t = "null" -> <<"N","o","n","e">>

MutFormatBoth(bull, bear) ==
    HdrBear \o PyFormat(bear) \o Rule \o HdrBull \o PyFormat(bull)
\* the f-string of the first branch
FormatBoth(bull, bear) ==
    HdrBull \o PyFormat(bull) \o Rule \o HdrBear \o PyFormat(bear)

\* the f-strings of the second and third branch
FormatBull(bull) == HdrBull \o PyFormat(bull)
FormatBear(bear) == HdrBear \o PyFormat(bear)

MutFallbackText(m) ==
    LET t == FirstText(m) IN IF t.ok THEN Return(Strip(t.v)) ELSE t
\* the body of the try block of the fallback branch
FallbackText(m) == FirstText(m)

MutFallbackCatches(e) == e \in {"APIConnectionError", "APITimeoutError"}
\* except Exception, in the fallback branch
FallbackCatches(e) == e \in ExceptionClasses

\* f"Error generating response: {e}"
ErrorText(msg) == ErrPrefix \o msg

\* the else branch is reached: neither response is truthy
MutNeedsFallback(bull, bear) == ~PyTruthy(bull)
NeedsFallback(bull, bear) == ~PyTruthy(bull) /\ ~PyTruthy(bear)

\* the if/elif/else on the two responses, the model answering m if it is
\* asked: the text of the event, the model calls made, the exception escaping
Aggregate(bull, bear, m) ==
    IF ~NeedsFallback(bull, bear)
    THEN [text |-> IF PyTruthy(bull) /\ PyTruthy(bear) THEN FormatBoth(bull, bear)
                   ELSE IF PyTruthy(bull) THEN FormatBull(bull)
                   ELSE FormatBear(bear),
          calls |-> 0, raised |-> FALSE]
    ELSE LET r == FallbackText(m)
         IN  IF r.ok THEN [text |-> r.v, calls |-> 1, raised |-> FALSE]
             ELSE IF FallbackCatches(r.exc)
                  THEN [text |-> ErrorText(r.msg), calls |-> 1, raised |-> FALSE]
             ELSE [text |-> <<>>, calls |-> 1, raised |-> TRUE]

\* the extraction of the query at the head of run_async: the first part with
\* a non-empty text, else the 'query' of the session state
RECURSIVE FirstNonEmpty(_)
FirstNonEmpty(parts) ==
    IF Len(parts) = 0 THEN <<>>
    ELSE IF Len(Head(parts)) > 0 THEN Head(parts)
    ELSE FirstNonEmpty(Tail(parts))

ExtractQuery(req) ==
    LET q == FirstNonEmpty(req.parts)
    IN  IF Len(q) > 0 THEN q ELSE req.state

(***************************************************************************)
(* The inputs: requests, model outcomes, specialist responses.             *)
(***************************************************************************)
QueryFrags ==
    {<<"A","n","a","l","y","Z","E"," ">>, <<"B","o">>, <<"T","H">>}

FixedQueries ==
    {<<"I","s"," ","t","h","i","s"," ","A","N","A","L","Y","S","I","S"," ",
       "s","o","u","n","d","?">>,
     <<"B","u","l","l"," ","A","n","d"," ","B","e","a","r"," ","o","n"," ",
       "T","S","L","A">>,
     <<"P","R","O","S"," ","a","n","d"," ","C","O","N","S"," ","o","f"," ",
       "N","V","D","A">>,
     <<"O","p","p","o","r","t","u","n","i","t","i","e","s"," ","A","N","D"," ",
       "R","i","s","k","s">>,
     <<"r","i","s","k","s"," ","o","f"," ","A","A","P","L">>}

Queries == (FragSeqs(QueryFrags, MaxQueryFrags) \ {<<>>}) \cup FixedQueries

\* a request: the texts of the parts of user_content (empty for a part without
\* text) and the 'query' of the session state (empty when absent)
Requests ==
    {[parts |-> <<q>>, state |-> <<>>] : q \in Queries}
    \cup {[parts |-> <<<<>>, q>>, state |-> <<>>] : q \in FixedQueries}
    \cup {[parts |-> <<>>, state |-> q] : q \in FixedQueries \cup {<<>>}}
    \cup {[parts |-> <<<<>>>>, state |-> <<>>]}

ModelFailures ==
    {[kind |-> "raise", exc |-> "APIConnectionError",
      msg |-> <<"d","o","w","n">>],
     [kind |-> "raise", exc |-> "APITimeoutError", msg |-> <<>>],
     [kind |-> "ok", content |-> <<>>],
     [kind |-> "ok", content |-> <<ToolUseBlock>>]}

ReplyFrags ==
    {<<"B","o","t","h">>, <<"B","e","a","r","_","A","n","a","l","y","s","t">>,
     <<"B","U","L","L","_","a","n","a","l","y","s","t">>, <<" ">>,
     <<"n","/","a">>}

\* what messages.create can do when asked for the routing
RoutingOutcomes ==
    {[kind |-> "ok", content |-> <<TextBlock(t)>>] :
        t \in FragSeqs(ReplyFrags, MaxReplyFrags)}
    \cup ModelFailures

\* what messages.create can do when asked for the fallback answer
FallbackOutcomes ==
    {[kind |-> "ok", content |-> <<TextBlock(t)>>] :
        t \in {<<"h","o","l","d">>, <<" ","h","o","l","d","\n">>, <<>>}}
    \cup ModelFailures

ArtifactText == <<"b","u","y">>
StatusText == <<"w","o","r","k","i","n","g">>

FillerPart == JObj([kind |-> JStr(<<"d","a","t","a">>)])
TextPart(withKind, txt) ==
    IF withKind THEN JObj([kind |-> JStr(KeyChars("text")), text |-> txt])
    ELSE JObj([text |-> txt])
Artifact(parts) == JObj([artifactId |-> JStr(<<"a","1">>), parts |-> parts])
FillerArtifact == Artifact(JArr(<<FillerPart>>))
StatusMessage ==
    JObj([state |-> JStr(<<"c","o","m","p","l","e","t","e","d">>),
          message |-> JObj([role |-> JStr(<<"a","g","e","n","t">>),
                            parts |-> JArr(<<JObj([text |-> JStr(StatusText)])>>)])])

\* {"result": {"artifacts": arts}} with or without "status"
ResultBody(arts, withStatus) ==
    IF withStatus
    THEN JObj([result |-> JObj([artifacts |-> arts, status |-> StatusMessage])])
    ELSE JObj([result |-> JObj([artifacts |-> arts])])

\* nA artifacts, the i-th holding nP parts, the j-th of them the part p
ArtifactsWith(nA, i, nP, j, p) ==
    JArr([a \in 1..nA |->
            IF a = i THEN Artifact(JArr([k \in 1..nP |-> IF k = j THEN p ELSE FillerPart]))
            ELSE FillerArtifact])

\* a length of at most n and a position within it
Positions(n) == {lp \in (1..n) \X (1..n) : lp[2] <= lp[1]}

\* well-formed bodies with one text in some part of some artifact
ArtifactBodies ==
    {ResultBody(ArtifactsWith(a[1], a[2], p[1], p[2],
                              TextPart(withKind, JStr(ArtifactText))),
                withStatus) :
        a \in Positions(MaxArtifacts), p \in Positions(MaxParts),
        withKind \in BOOLEAN, withStatus \in BOOLEAN}

\* well-formed bodies without any artifact text
NoArtifactBodies ==
    {JObj([result |-> JObj([status |-> StatusMessage])]),
     ResultBody(JArr(<<>>), TRUE),
     ResultBody(JArr(<<>>), FALSE),
     ResultBody(JArr(<<FillerArtifact>>), TRUE),
     ResultBody(JArr(<<FillerArtifact>>), FALSE),
     ResultBody(JArr(<<Artifact(JArr(<<>>))>>), FALSE),
     ResultBody(JArr(<<JObj([artifactId |-> JStr(<<"a","1">>)])>>), FALSE),
     ResultBody(ArtifactsWith(1, 1, 1, 1, TextPart(TRUE, EmptyStr)), FALSE),
     JObj([result |-> JObj(<<>>)]),
     JObj([error |-> JObj([code |-> JNum(-32603),
                            message |-> JStr(<<"b","o","o","m">>)])]),
     JObj(<<>>)}

\* parseable JSON with a value of the wrong type on the way to the text
WrongTypeBodies ==
    {JNull, JNum(7), JStr(KeyChars("result")), JStr(<<"o","k">>), JArr(<<>>),
     JArr(<<JStr(KeyChars("result"))>>),
     JObj([result |-> JNull]), JObj([result |-> JNum(7)]),
     JObj([result |-> JStr(KeyChars("artifacts"))]),
     JObj([result |-> JArr(<<JStr(KeyChars("artifacts"))>>)]),
     JObj([result |-> JArr(<<>>)]),
     ResultBody(JNull, FALSE), ResultBody(JNum(0), FALSE), ResultBody(JNum(7), TRUE),
     ResultBody(JStr(<<"x","y">>), FALSE), ResultBody(JStr(KeyChars("parts")), FALSE),
     ResultBody(JObj([a |-> FillerArtifact]), FALSE),
     ResultBody(JArr(<<JNull>>), FALSE), ResultBody(JArr(<<JNum(7)>>), TRUE),
     ResultBody(JArr(<<JStr(KeyChars("parts"))>>), FALSE),
     ResultBody(JArr(<<JArr(<<JStr(KeyChars("parts"))>>)>>), FALSE),
     ResultBody(JArr(<<Artifact(JNull)>>), FALSE),
     ResultBody(JArr(<<Artifact(JNum(7))>>), FALSE),
     ResultBody(JArr(<<Artifact(JStr(<<"a","b">>))>>), TRUE),
     ResultBody(JArr(<<Artifact(JObj([p |-> FillerPart]))>>), FALSE),
     ResultBody(JArr(<<Artifact(JArr(<<JNull>>))>>), FALSE),
     ResultBody(JArr(<<Artifact(JArr(<<JStr(KeyChars("text"))>>))>>), FALSE),
     ResultBody(JArr(<<Artifact(JArr(<<JArr(<<>>)>>))>>), FALSE),
     ResultBody(JArr(<<Artifact(JArr(<<JNum(7)>>))>>), TRUE)}

\* the expected structure with a text field that is not a string
WrongLeafBodies ==
    {ResultBody(ArtifactsWith(1, 1, 1, 1, TextPart(TRUE, leaf)), FALSE) :
        leaf \in {JNull, JNum(7)}}

Bodies == ArtifactBodies \cup NoArtifactBodies \cup WrongTypeBodies \cup WrongLeafBodies

Durations == 1..MaxDur

\* what the network and the remote agent can do with one request
CallOutcomes ==
    {[kind |-> "raise", exc |-> "ConnectError", msg |-> <<"r","e","f","u","s","e","d">>,
      dur |-> d] : d \in Durations}
    \cup {[kind |-> "raise", exc |-> "ReadTimeout", msg |-> <<>>, dur |-> CallTimeout]}
    \cup {[kind |-> "http", status |-> st, isjson |-> TRUE, json |-> b, dur |-> d] :
             st \in {200}, b \in Bodies, d \in Durations}
    \cup {[kind |-> "http", status |-> st, isjson |-> TRUE,
           json |-> ResultBody(ArtifactsWith(1, 1, 1, 1, TextPart(TRUE, JStr(ArtifactText))),
                               FALSE),
           dur |-> d] : st \in {201, 404, 500}, d \in Durations}
    \cup {[kind |-> "http", status |-> 200, isjson |-> FALSE, json |-> JNull, dur |-> d] :
             d \in Durations}

(***************************************************************************)
(* bull_agent/server.py: handle_message                                    *)
(***************************************************************************)
\* the JSON-RPC error codes the handler answers with
InvalidRequest == -32600
InternalError == -32603

NoTextMessage ==
    <<"N","o"," ","t","e","x","t"," ","c","o","n","t","e","n","t"," ","i","n"," ",
      "m","e","s","s","a","g","e">>

\* v.get(k, {}) and v.get(k, []): only a dict has the method, and a key that
\* is present wins over the default whatever its value
PyDictGetOr(v, k, default) ==
    CASE v.t = "obj" -> Return(IF k \in DOMAIN v.o THEN v.o[k] ELSE default)
      [] OTHER -> Raise("AttributeError", <<"g","e","t">>)

\* the keys of a dict in some order
RECURSIVE KeySeq(_)
KeySeq(S) ==
    IF S = {} THEN <<>>
    ELSE LET k == CHOOSE x \in S : TRUE
         IN  <<JStr(KeyChars(k))>> \o KeySeq(S \ {k})

\* the items "for part in v" visits
PyIter(v) ==
    CASE v.t = "arr" -> Return(v.a)
      [] v.t = "str" -> Return([i \in 1..Len(v.s) |-> JStr(<<v.s[i]>>)])
      [] v.t = "obj" -> Return(KeySeq(DOMAIN v.o))
      [] OTHER -> Raise("TypeError", <<"n","o","t"," ","i","t","e","r","a","b","l","e">>)

\* the loop over the parts: the text of the first part that has the key
RECURSIVE FirstPartText(_)
FirstPartText(items) ==
    IF items = <<>> THEN Return(EmptyStr)
    ELSE LET has == PyIn("text", Head(items))
         IN  IF ~has.ok THEN has
             ELSE IF has.v THEN PyGetItem(Head(items), "text")
             ELSE FirstPartText(Tail(items))

\* params, message, parts and the query found in them
MessageQuery(body) ==
    LET params == PyDictGetOr(body, "params", JObj(<<>>))
    IN  IF ~params.ok THEN params
        ELSE LET message == PyDictGetOr(params.v, "message", JObj(<<>>))
             IN  IF ~message.ok THEN message
                 ELSE LET parts == PyDictGetOr(message.v, "parts", JArr(<<>>))
                      IN  IF ~parts.ok THEN parts
                          ELSE LET items == PyIter(parts.v)
                               IN  IF ~items.ok THEN items
                                   ELSE FirstPartText(items.v)

\* the content of the last message that has one, "" when none has
RECURSIVE LastContent(_)
LastContent(msgs) ==
    IF msgs = <<>> THEN <<>>
    ELSE IF Len(msgs[Len(msgs)]) > 0 THEN msgs[Len(msgs)]
    ELSE LastContent(SubSeq(msgs, 1, Len(msgs) - 1))

\* str(uuid.uuid4()), the n-th one drawn while answering
Uuid(n) == JStr(<<"u", "-">> \o NatStr(n))

JsonRpcVersion == JStr(<<"2", ".", "0">>)

\* the body of a successful answer
A2AResult(id, text) ==
    JObj([jsonrpc |-> JsonRpcVersion,
          id |-> id,
          result |->
            JObj([artifacts |->
                    JArr(<<JObj([artifactId |-> Uuid(3),
                                 parts |-> JArr(<<TextPart(TRUE, JStr(text))>>)])>>),
                  contextId |-> Uuid(1),
                  history |->
                    JArr(<<JObj([contextId |-> Uuid(1),
                                 kind |-> JStr(<<"m","e","s","s","a","g","e">>),
                                 messageId |-> Uuid(4),
                                 parts |-> JArr(<<TextPart(TRUE, JStr(text))>>),
                                 role |-> JStr(<<"a","g","e","n","t">>),
                                 taskId |-> Uuid(2)])>>)])])

\* the body of an error answer
JsonRpcError(id, code, message) ==
    JObj([jsonrpc |-> JsonRpcVersion,
          id |-> id,
          error |-> JObj([code |-> JNum(code), message |-> JStr(message)])])

MutNoTextError(id) == JsonRpcError(id, InternalError, NoTextMessage)
\* the answer to a message without text
NoTextError(id) == JsonRpcError(id, InvalidRequest, NoTextMessage)

\* the agent is invoked: the body parsed, a query was found and is truthy
ReachesAgent(req) ==
    /\ req.parsed
    /\ MessageQuery(req.json).ok
    /\ PyTruthy(MessageQuery(req.json).v)

\* the try block: the body of the answer, or the exception raised in it
TryHandle(req, agent) ==
    IF ~req.parsed THEN Raise("JSONDecodeError", <<"E","x","p","e","c","t","i","n","g">>)
    ELSE LET q == MessageQuery(req.json)
         IN  IF ~q.ok THEN q
             ELSE IF ~PyTruthy(q.v)
                  THEN Return(NoTextError(PyDictGet(req.json, "id").v))
             ELSE IF agent.kind = "raise" THEN Raise(agent.exc, agent.msg)
             ELSE Return(A2AResult(PyDictGet(req.json, "id").v,
                                   LastContent(agent.messages)))

\* body.get("id") if "body" in dir() else None, in the except block: body is
\* bound as soon as request.json() has returned, whatever it returned
HandlerId(req) ==
    IF req.parsed THEN PyDictGet(req.json, "id") ELSE Return(JNull)

\* except Exception, in handle_message
HandlerCatches(e) == e \in ExceptionClasses

\* handle_message: the HTTP answer, an exception that escapes the handler being
\* answered by the server with a bare 500
HandleMessage(req, agent) ==
    LET r == TryHandle(req, agent)
        invoked == IF ReachesAgent(req) THEN 1 ELSE 0
    IN  IF r.ok THEN [status |-> 200, json |-> r.v, invoked |-> invoked]
        ELSE IF ~HandlerCatches(r.exc)
             THEN [status |-> 500, json |-> JNull, invoked |-> invoked]
        ELSE LET id == HandlerId(req)
             IN  IF id.ok
                 THEN [status |-> 200, json |-> JsonRpcError(id.v, InternalError, r.msg),
                       invoked |-> invoked]
                 ELSE [status |-> 500, json |-> JNull, invoked |-> invoked]

\* the parts a message may hold
MessagePartValues ==
    {JObj([text |-> JStr(<<>>)]), JObj([text |-> JStr(<<"A","A","P","L">>)]),
     JObj([text |-> JNull]), FillerPart, JNum(7), JStr(KeyChars("text"))}

RECURSIVE PartLists(_)
PartLists(n) ==
    IF n = 0 THEN {<<>>}
    ELSE PartLists(n - 1)
         \cup {Append(l, p) : l \in {x \in PartLists(n - 1) : Len(x) = n - 1},
                              p \in MessagePartValues}

\* the values "params" may have, the well-typed ones holding a message
ParamsValues ==
    {JObj([message |-> JObj([role |-> JStr(<<"u","s","e","r">>),
                             parts |-> JArr(l)])]) : l \in PartLists(MaxMsgParts)}
    \cup {JObj([message |-> JObj([role |-> JStr(<<"u","s","e","r">>), parts |-> p])]) :
             p \in {JNull, JNum(7), JStr(KeyChars("text")),
                    JObj([text |-> JStr(<<"A","A","P","L">>)])}}
    \cup {JObj([message |-> JObj([role |-> JStr(<<"u","s","e","r">>)])]),
          JObj([message |-> JNull]),
          JObj([message |-> JArr(<<>>)]),
          JObj([metadata |-> JNull]),
          JNull, JArr(<<>>), JStr(<<"x">>)}

MessageSend == JStr(<<"m","e","s","s","a","g","e","/","s","e","n","d">>)

\* what a client may post to the handler
HandlerRequests ==
    {[parsed |-> FALSE, json |-> JNull]}
    \cup {[parsed |-> TRUE, json |-> j] :
             j \in {JNull, JNum(7), JStr(<<"x">>), JArr(<<>>), JArr(<<JNum(7)>>)}}
    \cup {[parsed |-> TRUE,
           json |-> JObj([jsonrpc |-> JsonRpcVersion, method |-> MessageSend,
                          id |-> JNum(1), params |-> p])] : p \in ParamsValues}
    \cup {[parsed |-> TRUE,
           json |-> JObj([jsonrpc |-> JsonRpcVersion, method |-> MessageSend,
                          params |-> p])] : p \in ParamsValues}
    \cup {[parsed |-> TRUE,
           json |-> JObj([jsonrpc |-> JsonRpcVersion, method |-> MessageSend,
                          id |-> JNum(1)])]}

\* what agent.invoke can do: raise, or return the messages of the run
AgentOutcomes ==
    {[kind |-> "raise", exc |-> "APIConnectionError", msg |-> <<"d","o","w","n">>],
     [kind |-> "ok", messages |-> <<<<"A","A","P","L">>, ArtifactText>>],
     [kind |-> "ok", messages |-> <<<<"A","A","P","L">>, ArtifactText, <<>>>>],
     [kind |-> "ok", messages |-> <<<<>>, <<>>>>]}

(***************************************************************************)
(* bear_agent/agent.py: run_async                                          *)
(***************************************************************************)
\* the name of the first tool, and the head of the report it returns
RiskScanner == <<"r","i","s","k","_","s","c","a","n","n","e","r">>
ToolReport == <<"R","i","s","k"," ","A","n","a","l","y","s","i","s">>

\* self.tools: the names _execute_tool knows
ToolNames ==
    {RiskScanner,
     <<"d","o","w","n","s","i","d","e","_","c","a","t","a","l","y","s","t","_","f","i","n","d","e","r">>,
     <<"e","x","i","t","_","s","i","g","n","a","l","_","m","o","n","i","t","o","r">>}

\* a tool_use block of the model's answer: the name asked for and what the
\* tool of that name does with the input sent along, if there is such a tool
\* (it returns its report, or raises)
ToolUse(name, does) == [type |-> "tool_use", name |-> name, does |-> does]

\* _execute_tool(tool_name, arguments); except Exception catches whatever the
\* tool raises
ExecuteTool(name, does) ==
    IF name \in ToolNames
    THEN IF does.ok THEN does.v
         ELSE <<"E","r","r","o","r"," ","e","x","e","c","u","t","i","n","g"," ">> \o name
              \o <<":"," ">> \o does.msg
    ELSE <<"T","o","o","l"," ">> \o name \o <<" ","n","o","t"," ","f","o","u","n","d">>

\* tool_results after the loop: one result for each tool_use block, in order
RECURSIVE ToolResults(_)
ToolResults(content) ==
    IF content = <<>> THEN <<>>
    ELSE (IF Head(content).type = "tool_use"
          THEN <<ExecuteTool(Head(content).name, Head(content).does)>>
          ELSE <<>>)
         \o ToolResults(Tail(content))

MutToolCallsHandled(content) == FALSE

UnableText ==
    <<"U","n","a","b","l","e"," ","t","o"," ","g","e","n","e","r","a","t","e"," ",
      "a","n","a","l","y","s","i","s",".">>

\* final_response after the loop over the content blocks of the first answer
RECURSIVE BlockTexts(_)
BlockTexts(content) ==
    IF content = <<>> THEN <<>>
    ELSE (IF Head(content).type = "text" THEN Head(content).text ELSE <<>>)
         \o BlockTexts(Tail(content))

\* tool_calls_handled after the loop
ToolCallsHandled(content) ==
    \E i \in 1..Len(content) : content[i].type = "tool_use"

\* the try block: final_response before the test for an empty one; the model
\* answers m1 to the first call and m2 to the second, if there is one
BearTry(m1, m2) ==
    IF m1.kind = "raise" THEN Raise(m1.exc, m1.msg)
    ELSE IF ToolCallsHandled(m1.content) THEN FirstText(m2)
    ELSE Return(BlockTexts(m1.content))

\* except Exception, in the bear agent's run_async
BearCatches(e) == e \in ExceptionClasses

\* f"Error generating response: {e}", in the bear agent
BearErrorText(msg) == ErrPrefix \o msg

\* run_async of the bear agent for a non-empty query: the text of the event
\* yielded, the model calls made, the exception escaping
BearRunAsync(m1, m2) ==
    LET r == BearTry(m1, m2)
        calls == IF m1.kind = "ok" /\ ToolCallsHandled(m1.content) THEN 2 ELSE 1
    IN  IF r.ok
        THEN [text |-> IF Len(r.v) = 0 THEN UnableText ELSE r.v,
              calls |-> calls, raised |-> FALSE]
        ELSE IF BearCatches(r.exc)
             THEN [text |-> BearErrorText(r.msg), calls |-> calls, raised |-> FALSE]
        ELSE [text |-> <<>>, calls |-> calls, raised |-> TRUE]

BearText == <<"s","e","l","l">>

\* what messages.create can do for the bear agent
BearModelOutcomes ==
    {[kind |-> "raise", exc |-> "APIConnectionError", msg |-> <<"d","o","w","n">>],
     [kind |-> "ok", content |-> <<TextBlock(BearText)>>],
     [kind |-> "ok",
      content |-> <<TextBlock(BearText), ToolUse(RiskScanner, Return(ToolReport))>>],
     [kind |-> "ok", content |-> <<>>]}

\* the answers of the bear server to a message with a query: the text of the
\* event in the response format the bull server copies from it
BearServerOutcomes ==
    {[kind |-> "http", status |-> 200, isjson |-> TRUE,
      json |-> A2AResult(Uuid(1), BearRunAsync(m1, m2).text), dur |-> 1] :
        m1 \in BearModelOutcomes, m2 \in BearModelOutcomes}

(***************************************************************************)
(* The request _call_agent_via_a2a posts.                                  *)
(***************************************************************************)
MutA2APayload(query, n) ==
    JObj([jsonrpc |-> JsonRpcVersion,
          method |-> MessageSend,
          id |-> Uuid(2 * n + 1),
          params |->
            JObj([message |->
                    JObj([messageId |-> Uuid(2 * n + 2),
                          parts |-> JArr(<<JObj([text |-> JStr(Strip(query))])>>),
                          role |-> JStr(<<"u","s","e","r">>)])])])

\* payload, the n-th request of this run (n from 0), each uuid4 being new
A2APayload(query, n) ==
    JObj([jsonrpc |-> JsonRpcVersion,
          method |-> MessageSend,
          id |-> Uuid(2 * n + 1),
          params |->
            JObj([message |->
                    JObj([messageId |-> Uuid(2 * n + 2),
                          parts |-> JArr(<<JObj([text |-> JStr(query)])>>),
                          role |-> JStr(<<"u","s","e","r">>)])])])

\* client.post(agent_url, json=payload, headers=...)
Post(url, query, n) == [url |-> url, method |-> "POST", json |-> A2APayload(query, n)]

(***************************************************************************)
(* tracing/setup.py: setup_arize_tracing                                   *)
(***************************************************************************)
\* the processes of the system and the ones that serve HTTP
Processes == {"cli", "orchestrator", "bull", "bear"}
Servers == {"orchestrator", "bull", "bear"}

\* the module state of tracing/setup.py in a process that has imported it,
\* with what the calls of setup_arize_tracing have installed so far
FreshProcess ==
    [initialized |-> FALSE, calls |-> 0, completions |-> 0, textmapSets |-> 0,
     providerSets |-> 0, provider |-> "none", httpxInstalls |-> 0,
     aiohttpInstalls |-> 0, lastCall |-> "none"]

\* what a call finds: the credentials set or not, what importing and calling
\* arize.otel.register does, and whether the OTLP exporter and the two
\* instrumentors can be imported and installed
SetupEnvs ==
    {e \in [creds : BOOLEAN, register : {"ok", "ImportError", "ValueError"},
            otlp : {"ok", "ImportError"}, httpx : {"ok", "ImportError"},
            aiohttp : {"ok", "ImportError"}] :
        /\ ~e.creds => e.register = "ok"
        /\ e.register # "ImportError" => e.otlp = "ok"}

MutAlreadyInitialized(st) == FALSE
\* if _initialized
AlreadyInitialized(st) == st.initialized

\* the two instrumentation blocks, _initialized = True and the return
FinishSetup(st, env) ==
    [st EXCEPT !.httpxInstalls = IF env.httpx = "ok" THEN @ + 1 ELSE @,
               !.aiohttpInstalls = IF env.aiohttp = "ok" THEN @ + 1 ELSE @,
               !.initialized = TRUE,
               !.completions = @ + 1,
               !.lastCall = "tracer"]

\* the branch with credentials: register, its two fallbacks on ImportError,
\* and the second set_global_textmap; any other exception of register
\* escapes the call
WithCredentials(st, env) ==
    IF env.register = "ok"
    THEN FinishSetup([st EXCEPT !.providerSets = @ + 1, !.provider = "arize",
                                !.textmapSets = @ + 1], env)
    ELSE IF env.register = "ImportError"
    THEN FinishSetup([st EXCEPT !.providerSets = @ + 1,
                                !.provider = IF env.otlp = "ok" THEN "otlp" ELSE "basic",
                                !.textmapSets = @ + 1], env)
    ELSE [st EXCEPT !.lastCall = "raised"]

\* setup_arize_tracing: the module state after a call made in state st
SetupArizeTracing(st, env) ==
    IF AlreadyInitialized(st)
    THEN [st EXCEPT !.calls = @ + 1, !.lastCall = "tracer"]
    ELSE LET begun == [st EXCEPT !.calls = @ + 1, !.textmapSets = @ + 1]
         IN  IF ~env.creds
             THEN FinishSetup([begun EXCEPT !.providerSets = @ + 1,
                                            !.provider = "basic"], env)
             ELSE WithCredentials(begun, env)

\* HTTPXClientInstrumentor().instrument() has taken effect in the process
HttpxInstrumented(st) == st.httpxInstalls > 0

(***************************************************************************)
(* tracing/setup.py: TracingMiddleware, and the propagation between hops   *)
(***************************************************************************)
WellKnown == <<".","w","e","l","l","-","k","n","o","w","n">>
AgentCardJson == <<"/",".","w","e","l","l","-","k","n","o","w","n","/","a","g","e","n","t","-","c","a","r","d",".","j","s","o","n">>
AgentCard == <<"/",".","w","e","l","l","-","k","n","o","w","n","/","a","g","e","n","t","-","c","a","r","d">>
RootPath == <<"/">>
OtherPath == <<"/","d","o","c","s">>

\* the trace and the parent span named by the header of an outside caller
ExternalTrace == 800
ExternalSpan == 900

\* the ids the tracer draws for the n-th span recorded in the system
NewSpanId(n) == n
NewTraceId(n) == 100 + n

NoContext == [valid |-> FALSE, trace |-> 0, span |-> 0]
ContextOf(trace, span) == [valid |-> TRUE, trace |-> trace, span |-> span]

\* a traceparent header value: one the propagator can parse, or not
Traceparent(ctx) == [wellformed |-> TRUE, trace |-> ctx.trace, span |-> ctx.span]
Malformed == [wellformed |-> FALSE, trace |-> 0, span |-> 0]

\* headers={"Content-Type": "application/json"}
BaseHeaders == "content-type" :> "application/json"

\* inject(headers): the current span's context is written, if there is one
Inject(headers, ctx) ==
    IF ctx.valid THEN ("traceparent" :> Traceparent(ctx)) @@ headers
    ELSE headers

\* extract(headers)
Extract(headers) ==
    IF "traceparent" \in DOMAIN headers /\ headers["traceparent"].wellformed
    THEN ContextOf(headers["traceparent"].trace, headers["traceparent"].span)
    ELSE NoContext

MutSkipsTracing(path) == path = AgentCardJson
\* if ".well-known" in path
SkipsTracing(path) == Contains(path, WellKnown)

\* neither early return of __call__ is taken
Traced(scope) == scope.type = "http" /\ ~SkipsTracing(scope.path)

MutStartSpan(svc, kind, ctx, n) ==
    [svc |-> svc, kind |-> kind, trace |-> NewTraceId(n), id |-> NewSpanId(n),
     parent |-> 0, ended |-> FALSE]
\* tracer.start_as_current_span(name, context=ctx, kind=kind), as the n-th
\* span: a child of the context if it holds a span, a new root otherwise
StartSpan(svc, kind, ctx, n) ==
    [svc |-> svc, kind |-> kind,
     trace |-> IF ctx.valid THEN ctx.trace ELSE NewTraceId(n),
     id |-> NewSpanId(n),
     parent |-> IF ctx.valid THEN ctx.span ELSE 0,
     ended |-> FALSE]

\* the context of a span
SpanContext(span) == ContextOf(span.trace, span.id)

\* what a client sends: the connection scopes and the headers of a request
InboundHeaders ==
    {BaseHeaders,
     Inject(BaseHeaders, ContextOf(ExternalTrace, ExternalSpan)),
     ("traceparent" :> Malformed) @@ BaseHeaders}

Scopes ==
    {[type |-> "http", path |-> p, headers |-> h] :
        p \in {RootPath, AgentCardJson, AgentCard, OtherPath}, h \in InboundHeaders}
    \cup {[type |-> t, path |-> RootPath, headers |-> h] :
             t \in {"websocket"}, h \in InboundHeaders}
    \cup {[type |-> "lifespan", path |-> <<>>, headers |-> BaseHeaders]}

\* the process that serves an agent of the routing decision
ServerOf(agent) == IF agent = "bull_analyst" THEN "bull" ELSE "bear"

\* the lists _determine_agents can return
Decisions == {BothAgents, BullOnly, BearOnly}

\* the environments of the processes whose requests are followed: without
\* credentials, the HTTP client instrumentation installed or not
TraceEnvs ==
    {e \in SetupEnvs : ~e.creds /\ e.aiohttp = "ok"}

(***************************************************************************)
(* The bear agent's run_async as a whole.                                  *)
(***************************************************************************)
\* run_async(parent_context) of the bear agent, user_content having the
\* parts given: the texts of the events yielded, the model calls made, the
\* tool results collected, the exception escaping
BearAgentRun(parts, m1, m2) ==
    IF Len(FirstNonEmpty(parts)) = 0
    THEN [events |-> <<NoQueryText>>, calls |-> 0, tools |-> <<>>,
          raised |-> FALSE]
    ELSE LET r == BearRunAsync(m1, m2)
         IN  [events |-> IF r.raised THEN <<>> ELSE <<r.text>>,
              calls |-> r.calls,
              tools |-> IF m1.kind = "ok" THEN ToolResults(m1.content) ELSE <<>>,
              raised |-> r.raised]

\* the parts of user_content: a text, a part without text before it, no part
BearParts ==
    {<<BearText>>, <<<<>>, BearText>>, <<<<>>>>, <<>>}

\* what a tool does with its input: the report, or an exception
ToolDoes ==
    {Return(ToolReport),
     Raise("TypeError", <<"s","y","m","b","o","l">>)}

\* the tool_use blocks the model can answer with: a known tool, or a name
\* _execute_tool does not know
ToolUses ==
    {ToolUse(n, d) : n \in {RiskScanner, <<"n","e","w","s">>}, d \in ToolDoes}

\* the first answers of the model to the bear agent
BearFirstReplies ==
    BearModelOutcomes
    \cup {[kind |-> "ok", content |-> <<TextBlock(<<>>)>>]}
    \cup {[kind |-> "ok", content |-> <<u>>] : u \in ToolUses}
    \cup {[kind |-> "ok", content |-> <<TextBlock(BearText), u, v>>] :
             u \in ToolUses, v \in ToolUses}

\* the second answers: as the first, and an empty text
BearSecondReplies ==
    BearModelOutcomes \cup {[kind |-> "ok", content |-> <<TextBlock(<<>>)>>]}

(***************************************************************************)
(* The CLI's request to the orchestrator.                                  *)
(***************************************************************************)
\* payload of query_orchestrator, in the n-th run of the CLI (n from 0): the
\* message id is a new uuid4, the request id is the literal "1"
CliPayload(query, n) ==
    JObj([jsonrpc |-> JsonRpcVersion,
          method |-> MessageSend,
          id |-> JStr(<<"1">>),
          params |->
            JObj([message |->
                    JObj([messageId |-> Uuid(n + 1),
                          parts |-> JArr(<<JObj([text |-> JStr(query)])>>),
                          role |-> JStr(<<"u","s","e","r">>)])])])

\* client.post(orchestrator_url, json=payload, headers=headers)
CliPost(query, n) ==
    [url |-> "orchestrator_url", method |-> "POST", json |-> CliPayload(query, n)]

\* the queries of successive runs of the analyze command
CliRuns ==
    UNION {[1..k -> {BearText, <<"b","u","y">>}] : k \in 1..MaxCliRuns}

(***************************************************************************)
(* The outbound calls of run_async, as they start and end.                 *)
(***************************************************************************)
\* messages.create is called without a timeout, on a client built without one
NoTimeout == 0

\* self.bull_agent_url, self.bear_agent_url: the url posted to for an agent
MutAgentUrl(agent) ==
    IF agent = "bull_analyst" THEN "bear_agent_url" ELSE "bull_agent_url"
AgentUrl(agent) ==
    IF agent = "bull_analyst" THEN "bull_agent_url" ELSE "bear_agent_url"

\* an awaited call: it starts, and the caller goes on when it has ended
Awaited(to, timeout) ==
    <<[ev |-> "start", to |-> to, timeout |-> timeout],
      [ev |-> "end", to |-> to, timeout |-> timeout]>>

\* await loop.run_in_executor(None, lambda: self.client.messages.create(...))
ModelCall(purpose) == Awaited(purpose, NoTimeout)

\* await self._call_agent_via_a2a(url, query), under AsyncClient(timeout=120.0)
AgentCall(url) == Awaited(url, CallTimeout)

(***************************************************************************)
(* The state: one request handled by run_async.                            *)
(***************************************************************************)
VARIABLES
    pc,             \* where run_async stands; "aborted" when an exception
                    \* escaped before the formatting of the response
    request,        \* the request being handled
    query,          \* the query extracted from it
    agents_to_call, \* the list _determine_agents returned
    routeCalls,     \* model calls made by _determine_agents
    bull_response,  \* the value of the local of that name
    bear_response,  \* the value of the local of that name
    bullCall,       \* how the call to the bull agent ended, and how long it took
    bearCall,       \* how the call to the bear agent ended, and how long it took
    elapsed,        \* seconds spent awaiting the specialist calls
    fallbackCalls,  \* model calls made by the fallback branch
    fallbackReply,  \* what the model did when asked for the fallback answer
    events,         \* the texts of the events yielded
    raised,         \* an exception escaped run_async
    probe,          \* a function applied to drawn inputs, with its result
    decisions,      \* calls of _determine_agents made by run_async
    sent,           \* the requests run_async posted, in order
    outbound,       \* the starts and ends of the calls run_async awaited
    procs,          \* per process, the module state of tracing/setup.py
    spans,          \* the spans recorded by all processes, the n-th having id n
    tlog,           \* what the middlewares did, in order
    wire,           \* the requests sent between the processes, in order
    stack,          \* the requests being served, the innermost last
    cli             \* where the CLI's query_orchestrator stands

vars ==
    <<pc, request, query, agents_to_call, routeCalls, bull_response,
      bear_response, bullCall, bearCall, elapsed, fallbackCalls, fallbackReply,
      events, raised, probe, decisions, sent, outbound, procs, spans, tlog,
      wire, stack, cli>>

\* the variables of the tracing
tracing == <<procs, spans, tlog, wire, stack, cli>>

\* the variables of run_async
flow ==
    <<pc, request, query, agents_to_call, routeCalls, bull_response,
      bear_response, bullCall, bearCall, elapsed, fallbackCalls, fallbackReply,
      events, raised, decisions, sent, outbound>>

NotCalled == [status |-> "none", dur |-> 0]
NoReply == [kind |-> "none"]
NoProbe == [fn |-> "none"]

\* how a call ended, for the record kept of it
CallStatus(o) ==
    IF o.kind = "raise" /\ o.exc = "ReadTimeout" THEN "timeout"
    ELSE IF TryCall(o).ok THEN "returned"
    ELSE "error"

Init ==
    /\ pc = "start"
    /\ request \in Requests
    /\ query = <<>>
    /\ agents_to_call = <<>>
    /\ routeCalls = 0
    /\ bull_response = EmptyStr
    /\ bear_response = EmptyStr
    /\ bullCall = NotCalled
    /\ bearCall = NotCalled
    /\ elapsed = 0
    /\ fallbackCalls = 0
    /\ fallbackReply = NoReply
    /\ events = <<>>
    /\ raised = FALSE
    /\ probe = NoProbe
    /\ decisions = 0
    /\ sent = <<>>
    /\ outbound = <<>>
    /\ procs = [p \in Processes |-> FreshProcess]
    /\ spans = <<>>
    /\ tlog = <<>>
    /\ wire = <<>>
    /\ stack = <<>>
    /\ cli = "idle"

\* run_async up to the routing: the query is extracted, and without a query
\* the only event is yielded
ReceiveRequest ==
    /\ UNCHANGED tracing
    /\ pc = "start"
    /\ query' = ExtractQuery(request)
    /\ IF Len(query') = 0
       THEN /\ events' = Append(events, NoQueryText)
            /\ pc' = "done"
       ELSE /\ events' = events
            /\ pc' = "route"
    /\ UNCHANGED <<request, agents_to_call, routeCalls, bull_response,
                   bear_response, bullCall, bearCall, elapsed, fallbackCalls,
                   fallbackReply, raised, probe, decisions, sent, outbound>>

\* agents_to_call = await self._determine_agents(query)
Route ==
    /\ UNCHANGED tracing
    /\ pc = "route"
    /\ \E m \in RoutingOutcomes :
          LET r == DetermineAgents(query, m)
          IN  /\ agents_to_call' = r.agents
              /\ routeCalls' = routeCalls + r.calls
              /\ raised' = r.raised
              /\ pc' = IF r.raised THEN "aborted" ELSE "bull"
              /\ outbound' = IF r.calls > 0 THEN outbound \o ModelCall("routing")
                              ELSE outbound
    /\ decisions' = decisions + 1
    /\ UNCHANGED <<request, query, bull_response, bear_response, bullCall,
                   bearCall, elapsed, fallbackCalls, fallbackReply, events, probe,
                   sent>>

\* if "bull_analyst" in agents_to_call: bull_response = await ...
CallBull ==
    /\ UNCHANGED tracing
    /\ pc = "bull"
    /\ IF InList("bull_analyst", agents_to_call)
       THEN \E o \in CallOutcomes :
               LET r == CallAgentViaA2A(o)
               IN  /\ bull_response' = r.ret
                   /\ bullCall' = [status |-> CallStatus(o), dur |-> CallDuration(o)]
                   /\ elapsed' = elapsed + CallDuration(o)
                   /\ raised' = r.raised
                   /\ pc' = IF r.raised THEN "aborted" ELSE "bear"
                   /\ sent' = Append(sent, Post(AgentUrl("bull_analyst"), query,
                                                Len(sent)))
                   /\ outbound' = outbound \o AgentCall(AgentUrl("bull_analyst"))
       ELSE /\ pc' = "bear"
            /\ UNCHANGED <<bull_response, bullCall, elapsed, raised, sent, outbound>>
    /\ UNCHANGED <<request, query, agents_to_call, routeCalls, bear_response,
                   bearCall, fallbackCalls, fallbackReply, events, probe, decisions>>

\* if "bear_analyst" in agents_to_call: bear_response = await ...
CallBear ==
    /\ UNCHANGED tracing
    /\ pc = "bear"
    /\ IF InList("bear_analyst", agents_to_call)
       THEN \E o \in CallOutcomes \cup BearServerOutcomes :
               LET r == CallAgentViaA2A(o)
               IN  /\ bear_response' = r.ret
                   /\ bearCall' = [status |-> CallStatus(o), dur |-> CallDuration(o)]
                   /\ elapsed' = elapsed + CallDuration(o)
                   /\ raised' = r.raised
                   /\ pc' = IF r.raised THEN "aborted" ELSE "merge"
                   /\ sent' = Append(sent, Post(AgentUrl("bear_analyst"), query,
                                                Len(sent)))
                   /\ outbound' = outbound \o AgentCall(AgentUrl("bear_analyst"))
       ELSE /\ pc' = "merge"
            /\ UNCHANGED <<bear_response, bearCall, elapsed, raised, sent, outbound>>
    /\ UNCHANGED <<request, query, agents_to_call, routeCalls, bull_response,
                   bullCall, fallbackCalls, fallbackReply, events, probe, decisions>>

\* the formatting of the combined response and the yield of the event
Merge ==
    /\ UNCHANGED tracing
    /\ pc = "merge"
    /\ \E m \in FallbackOutcomes :
          LET r == Aggregate(bull_response, bear_response, m)
          IN  /\ fallbackCalls' = fallbackCalls + r.calls
              /\ fallbackReply' = IF r.calls > 0 THEN m ELSE NoReply
              /\ raised' = r.raised
              /\ events' = IF r.raised THEN events ELSE Append(events, r.text)
              /\ outbound' = IF r.calls > 0 THEN outbound \o ModelCall("fallback")
                              ELSE outbound
    /\ pc' = "done"
    /\ UNCHANGED <<request, query, agents_to_call, routeCalls, bull_response,
                   bear_response, bullCall, bearCall, elapsed, probe, decisions,
                   sent>>

Next == ReceiveRequest \/ Route \/ CallBull \/ CallBear \/ Merge

Spec == Init /\ [][Next]_vars

(***************************************************************************)
(* _determine_agents and _call_agent_via_a2a applied to drawn inputs.      *)
(***************************************************************************)
NoDecision == [agents |-> <<>>, calls |-> 0, raised |-> FALSE]
NoResult == [ret |-> EmptyStr, raised |-> FALSE]
NoAnswer == [status |-> 0, json |-> JNull, invoked |-> 0]

NoRun == [events |-> <<>>, calls |-> 0, tools |-> <<>>, raised |-> FALSE]

FnInit ==
    /\ pc = "start"
    /\ request = [parts |-> <<>>, state |-> <<>>]
    /\ query = <<>>
    /\ agents_to_call = <<>>
    /\ routeCalls = 0
    /\ bull_response = EmptyStr
    /\ bear_response = EmptyStr
    /\ bullCall = NotCalled
    /\ bearCall = NotCalled
    /\ elapsed = 0
    /\ fallbackCalls = 0
    /\ fallbackReply = NoReply
    /\ events = <<>>
    /\ raised = FALSE
    /\ decisions = 0
    /\ sent = <<>>
    /\ outbound = <<>>
    /\ procs = [p \in Processes |-> FreshProcess]
    /\ spans = <<>>
    /\ tlog = <<>>
    /\ wire = <<>>
    /\ stack = <<>>
    /\ cli = "idle"
    /\ probe \in
          {[fn |-> "_determine_agents", query |-> q, model |-> m, done |-> FALSE,
            out |-> NoDecision] : q \in Queries, m \in RoutingOutcomes}
          \cup {[fn |-> "_call_agent_via_a2a", reply |-> o, done |-> FALSE,
                 out |-> NoResult] : o \in CallOutcomes}
          \cup {[fn |-> "handle_message", req |-> r, agent |-> a, done |-> FALSE,
                 out |-> NoAnswer] : r \in HandlerRequests, a \in AgentOutcomes}
          \cup {[fn |-> "bear_run_async", parts |-> p, m1 |-> a, m2 |-> b,
                 done |-> FALSE, out |-> NoRun] :
                   p \in BearParts, a \in BearFirstReplies, b \in BearSecondReplies}
          \cup {[fn |-> "query_orchestrator", queries |-> qs, done |-> FALSE,
                 out |-> <<>>] : qs \in CliRuns}

ApplyDetermineAgents ==
    /\ UNCHANGED tracing
    /\ probe.fn = "_determine_agents"
    /\ ~probe.done
    /\ probe' = [probe EXCEPT !.done = TRUE,
                              !.out = DetermineAgents(probe.query, probe.model)]
    /\ UNCHANGED flow

ApplyCallAgent ==
    /\ UNCHANGED tracing
    /\ probe.fn = "_call_agent_via_a2a"
    /\ ~probe.done
    /\ probe' = [probe EXCEPT !.done = TRUE, !.out = CallAgentViaA2A(probe.reply)]
    /\ UNCHANGED flow

ApplyHandleMessage ==
    /\ UNCHANGED tracing
    /\ probe.fn = "handle_message"
    /\ ~probe.done
    /\ probe' = [probe EXCEPT !.done = TRUE,
                              !.out = HandleMessage(probe.req, probe.agent)]
    /\ UNCHANGED flow

\* one request to the bear agent
ApplyBearRunAsync ==
    /\ UNCHANGED tracing
    /\ probe.fn = "bear_run_async"
    /\ ~probe.done
    /\ probe' = [probe EXCEPT !.done = TRUE,
                              !.out = BearAgentRun(probe.parts, probe.m1, probe.m2)]
    /\ UNCHANGED flow

\* one run of the CLI's analyze command: asyncio.run(query_orchestrator(...))
ApplyQueryOrchestrator ==
    /\ UNCHANGED tracing
    /\ probe.fn = "query_orchestrator"
    /\ ~probe.done
    /\ LET n == Len(probe.out)
       IN  probe' = [probe EXCEPT
                        !.out = Append(probe.out, CliPost(probe.queries[n + 1], n)),
                        !.done = (n + 1 = Len(probe.queries))]
    /\ UNCHANGED flow

FnNext ==
    \/ ApplyDetermineAgents
    \/ ApplyCallAgent
    \/ ApplyHandleMessage
    \/ ApplyBearRunAsync
    \/ ApplyQueryOrchestrator

FnSpec == FnInit /\ [][FnNext]_vars

(***************************************************************************)
(* Repeated calls of setup_arize_tracing in the processes.                 *)
(***************************************************************************)
\* nothing has been set up, sent or recorded
TraceIdle ==
    /\ procs = [p \in Processes |-> FreshProcess]
    /\ spans = <<>>
    /\ tlog = <<>>
    /\ wire = <<>>
    /\ stack = <<>>
    /\ cli = "idle"

\* run_async is not in use
FlowIdle ==
    /\ pc = "start"
    /\ request = [parts |-> <<>>, state |-> <<>>]
    /\ query = <<>>
    /\ agents_to_call = <<>>
    /\ routeCalls = 0
    /\ bull_response = EmptyStr
    /\ bear_response = EmptyStr
    /\ bullCall = NotCalled
    /\ bearCall = NotCalled
    /\ elapsed = 0
    /\ fallbackCalls = 0
    /\ fallbackReply = NoReply
    /\ events = <<>>
    /\ raised = FALSE
    /\ decisions = 0
    /\ sent = <<>>
    /\ outbound = <<>>

SetupInit ==
    /\ FlowIdle
    /\ probe = NoProbe
    /\ TraceIdle

\* the calls of setup_arize_tracing made so far in all processes
TotalSetupCalls ==
    procs["cli"].calls + procs["orchestrator"].calls + procs["bull"].calls
        + procs["bear"].calls

\* some entry point of some process calls setup_arize_tracing
SetupCall ==
    /\ TotalSetupCalls < MaxSetupCalls
    /\ \E p \in Processes, e \in SetupEnvs :
          procs' = [procs EXCEPT ![p] = SetupArizeTracing(procs[p], e)]
    /\ UNCHANGED <<flow, probe, spans, tlog, wire, stack, cli>>

SetupNext == SetupCall

SetupSpec == SetupInit /\ [][SetupNext]_vars

(***************************************************************************)
(* One request followed through the middleware of the servers.             *)
(***************************************************************************)
\* every process has run its import-time setup_arize_tracing once
TraceInit ==
    /\ FlowIdle
    /\ probe = NoProbe
    /\ procs \in
          {[p \in Processes |->
               SetupArizeTracing(FreshProcess,
                                 IF p = "cli" THEN ec
                                 ELSE IF p = "orchestrator" THEN eo
                                 ELSE es)] :
              ec \in TraceEnvs, eo \in TraceEnvs,
              es \in {e \in TraceEnvs : e.httpx = "ok"}}
    /\ spans = <<>>
    /\ tlog = <<>>
    /\ wire = <<>>
    /\ stack = <<>>
    /\ cli = "idle"

\* a request that has reached a server and is not yet in its middleware
Frame(req, svc) ==
    [req |-> req, svc |-> svc, stage |-> "arrived", span |-> 0, client |-> 0,
     todo |-> <<>>]

Top == stack[Len(stack)]

\* the stack with its top frame replaced
WithTop(f) == SubSeq(stack, 1, Len(stack) - 1) \o <<f>>

\* an entry of the middleware's trail for request req
Ev(req, ev, span) == [req |-> req, ev |-> ev, span |-> span]

\* client.post in a process with module state st whose current span
\* context is ctx, the next span being the n-th: under the httpx
\* instrumentation the request runs in a client span whose context is
\* injected; without it the headers go out as the caller built them
SendVia(st, svc, headers, ctx, n) ==
    IF HttpxInstrumented(st)
    THEN LET c == StartSpan(svc, "CLIENT", ctx, n)
         IN  [spans |-> <<c>>, headers |-> Inject(headers, SpanContext(c)),
              active |-> c.id]
    ELSE [spans |-> <<>>, headers |-> headers,
          active |-> IF ctx.valid THEN ctx.span ELSE 0]

\* the spans with those of the given indices ended
Ended(ids) ==
    [i \in DOMAIN spans |->
        IF i \in ids THEN [spans[i] EXCEPT !.ended = TRUE] ELSE spans[i]]

\* a client other than the CLI connects to a server
ExternalRequest ==
    /\ cli = "idle"
    /\ wire = <<>>
    /\ \E svc \in Servers, sc \in Scopes :
          /\ wire' = <<[from |-> "external", to |-> svc, scope |-> sc, active |-> 0]>>
          /\ stack' = <<Frame(1, svc)>>
    /\ cli' = "absent"
    /\ UNCHANGED <<flow, probe, procs, spans, tlog>>

\* query_orchestrator up to the post: the cli span, inject(headers), the post
CliQuery ==
    /\ cli = "idle"
    /\ wire = <<>>
    /\ LET n == Len(spans) + 1
           cliSpan == StartSpan("cli", "CLIENT", NoContext, n)
           s == SendVia(procs["cli"], "cli",
                        Inject(BaseHeaders, SpanContext(cliSpan)),
                        SpanContext(cliSpan), n + 1)
       IN  /\ spans' = Append(spans, cliSpan) \o s.spans
           /\ wire' = <<[from |-> "cli", to |-> "orchestrator",
                         scope |-> [type |-> "http", path |-> RootPath,
                                    headers |-> s.headers],
                         active |-> s.active]>>
           /\ stack' = <<Frame(1, "orchestrator")>>
    /\ cli' = "waiting"
    /\ UNCHANGED <<flow, probe, procs, tlog>>

\* TracingMiddleware.__call__ up to the call of the wrapped app; the app of
\* the orchestrator, posted a message, will call the agents of its decision
MiddlewareEnter ==
    /\ stack # <<>>
    /\ Top.stage = "arrived"
    /\ LET f == Top
           sc == wire[f.req].scope
           n == Len(spans) + 1
       IN  \E d \in Decisions \cup {<<>>} :
              LET todo == IF f.svc = "orchestrator" /\ sc.type = "http"
                             /\ sc.path = RootPath
                          THEN d ELSE <<>>
              IN  IF Traced(sc)
                  THEN /\ spans' = Append(spans, StartSpan(f.svc, "SERVER",
                                                          Extract(sc.headers), n))
                       /\ tlog' = tlog \o <<Ev(f.req, "extract", 0),
                                            Ev(f.req, "start", n),
                                            Ev(f.req, "app", n)>>
                       /\ stack' = WithTop([f EXCEPT !.stage = "app", !.span = n,
                                                     !.todo = todo])
                  ELSE /\ spans' = spans
                       /\ tlog' = Append(tlog, Ev(f.req, "app", 0))
                       /\ stack' = WithTop([f EXCEPT !.stage = "app", !.todo = todo])
    /\ UNCHANGED <<flow, probe, procs, wire, cli>>

\* _call_agent_via_a2a inside the orchestrator's app: the post to the next
\* agent of the decision, with the headers the code gives it
CallDownstream ==
    /\ stack # <<>>
    /\ Top.stage = "app"
    /\ Top.todo # <<>>
    /\ LET f == Top
           n == Len(spans) + 1
           ctx == IF f.span = 0 THEN NoContext ELSE SpanContext(spans[f.span])
           s == SendVia(procs[f.svc], f.svc, BaseHeaders, ctx, n)
       IN  /\ spans' = spans \o s.spans
           /\ wire' = Append(wire, [from |-> f.svc, to |-> ServerOf(Head(f.todo)),
                                    scope |-> [type |-> "http", path |-> RootPath,
                                               headers |-> s.headers],
                                    active |-> s.active])
           /\ stack' = Append(WithTop([f EXCEPT !.todo = Tail(f.todo),
                                                !.client = IF s.spans = <<>> THEN 0
                                                           ELSE n]),
                              Frame(Len(wire) + 1, ServerOf(Head(f.todo))))
    /\ UNCHANGED <<flow, probe, procs, tlog, cli>>

\* the wrapped app returns, the with block of the middleware ends its span,
\* and the caller's post returns
AppReturn ==
    /\ stack # <<>>
    /\ Top.stage = "app"
    /\ Top.todo = <<>>
    /\ LET f == Top
       IN  /\ tlog' = tlog \o <<Ev(f.req, "appdone", f.span)>>
                           \o (IF f.span = 0 THEN <<>> ELSE <<Ev(f.req, "end", f.span)>>)
           /\ IF Len(stack) = 1
              THEN /\ stack' = <<>>
                   /\ spans' = Ended({f.span})
              ELSE LET caller == stack[Len(stack) - 1]
                   IN  /\ stack' = SubSeq(stack, 1, Len(stack) - 2)
                                      \o <<[caller EXCEPT !.client = 0]>>
                       /\ spans' = Ended({f.span, caller.client})
    /\ UNCHANGED <<flow, probe, procs, wire, cli>>

\* the post of the CLI has returned: its spans end
CliDone ==
    /\ cli = "waiting"
    /\ stack = <<>>
    /\ spans' = Ended({i \in DOMAIN spans : spans[i].svc = "cli"})
    /\ cli' = "done"
    /\ UNCHANGED <<flow, probe, procs, tlog, wire, stack>>

TraceNext ==
    ExternalRequest \/ CliQuery \/ MiddlewareEnter \/ CallDownstream \/ AppReturn
        \/ CliDone

TraceSpec == TraceInit /\ [][TraceNext]_vars


(***************************************************************************)
(* Vocabulary of the claims.                                               *)
(***************************************************************************)
\* the fast-path keywords, as the specification lists them
FastKeywords ==
    {KwAnalyze, KwAnalysis, KwBoth, KwBullAndBear, KwProsAndCons, KwOppsAndRisks}

HasFastKeyword(q) == \E k \in FastKeywords : Contains(LowerStr(q), k)

Routed == probe.fn = "_determine_agents" /\ probe.done
Called == probe.fn = "_call_agent_via_a2a" /\ probe.done

\* the model call gave a text
GaveText(m) == m.kind = "ok" /\ Len(m.content) > 0 /\ HasAttrText(m.content[1])

\* the text names none of the three answers
NamesNoAgent(t) ==
    /\ ~Contains(LowerStr(t), KwBoth)
    /\ ~Contains(LowerStr(t), KwBear)
    /\ ~Contains(LowerStr(t), KwBull)

\* run_async has gone through the formatting of the combined response
Merged == pc = "done" /\ Len(query) > 0

StartsWith(s, prefix) ==
    Len(s) >= Len(prefix) /\ SubSeq(s, 1, Len(prefix)) = prefix

\* the non-empty texts of the parts of a JSON list of parts
PartTexts(parts) ==
    IF parts.t # "arr" THEN {}
    ELSE {parts.a[i].o.text.s :
            i \in {k \in 1..Len(parts.a) :
                     /\ parts.a[k].t = "obj"
                     /\ "text" \in DOMAIN parts.a[k].o
                     /\ parts.a[k].o.text.t = "str"
                     /\ Len(parts.a[k].o.text.s) > 0}}

\* body[k] when body is an object holding k, null otherwise
Field(v, k) == IF v.t = "obj" /\ k \in DOMAIN v.o THEN v.o[k] ELSE JNull

\* the texts at result.artifacts[].parts[].text
ArtifactTextsOf(body) ==
    LET arts == Field(Field(body, "result"), "artifacts")
    IN  IF arts.t # "arr" THEN {}
        ELSE UNION {PartTexts(Field(arts.a[i], "parts")) : i \in 1..Len(arts.a)}

\* the texts at result.status.message.parts[].text
StatusTextsOf(body) ==
    PartTexts(Field(Field(Field(Field(body, "result"), "status"), "message"), "parts"))

\* a 2xx response with a JSON body
GoodResponse(o) == o.kind = "http" /\ o.status \in 200..299 /\ o.isjson

Max(a, b) == IF a >= b THEN a ELSE b

(***************************************************************************)
(* The claims.                                                             *)
(***************************************************************************)
\* C1: a query whose lower-cased text contains a fast-path keyword is routed
\* to both specialists without any model call, whatever the model would do.
C1_FastPathBothNoModelCall ==
    (Routed /\ HasFastKeyword(probe.query))
        => /\ probe.out.agents = <<"bull_analyst", "bear_analyst">>
           /\ probe.out.calls = 0
           /\ ~probe.out.raised

C1_Witness ==
    /\ Routed
    /\ Contains(LowerStr(probe.query), KwProsAndCons)
    /\ GaveText(probe.model)
    /\ Contains(LowerStr(probe.model.content[1].text), KwBull)
    /\ probe.out.agents = <<"bull_analyst", "bear_analyst">>

\* C2: without a fast-path keyword, a model call that raises, gives no text,
\* an empty text or a text naming no agent is routed to both specialists,
\* and no exception escapes.
C2_RoutingFailureGivesBoth ==
    (/\ Routed
     /\ ~HasFastKeyword(probe.query)
     /\ \/ ~GaveText(probe.model)
        \/ NamesNoAgent(probe.model.content[1].text))
        => /\ probe.out.agents = <<"bull_analyst", "bear_analyst">>
           /\ ~probe.out.raised

C2_Witness ==
    /\ Routed
    /\ ~HasFastKeyword(probe.query)
    /\ probe.model.kind = "raise"
    /\ probe.out.agents = <<"bull_analyst", "bear_analyst">>
    /\ probe.out.calls = 1

\* C3: on the fallback path exactly one model call is made and its text is
\* read case-insensitively with the priority both, bear, bull, else both.
C3_ReplyPriority ==
    (Routed /\ ~HasFastKeyword(probe.query))
        => /\ probe.out.calls = 1
           /\ GaveText(probe.model)
                => LET t == LowerStr(probe.model.content[1].text)
                   IN  probe.out.agents =
                          IF Contains(t, KwBoth) THEN <<"bull_analyst", "bear_analyst">>
                          ELSE IF Contains(t, KwBear) THEN <<"bear_analyst">>
                          ELSE IF Contains(t, KwBull) THEN <<"bull_analyst">>
                          ELSE <<"bull_analyst", "bear_analyst">>

C3_Witness ==
    /\ Routed
    /\ ~HasFastKeyword(probe.query)
    /\ GaveText(probe.model)
    /\ Contains(LowerStr(probe.model.content[1].text), KwBear)
    /\ Contains(LowerStr(probe.model.content[1].text), KwBull)
    /\ probe.out.agents = <<"bear_analyst">>
    /\ probe.out.calls = 1

\* C4: the merged response is fixed by which specialist texts are non-empty:
\* the bull section alone, the bear section alone, or the bull section, a
\* rule and the bear section, in that order.
C4_MergedFormat ==
    (Merged /\ (PyTruthy(bull_response) \/ PyTruthy(bear_response)))
        => events =
             <<IF PyTruthy(bull_response) /\ PyTruthy(bear_response)
               THEN HdrBull \o PyFormat(bull_response) \o Rule \o HdrBear
                        \o PyFormat(bear_response)
               ELSE IF PyTruthy(bull_response)
                    THEN HdrBull \o PyFormat(bull_response)
               ELSE HdrBear \o PyFormat(bear_response)>>

C4_Witness ==
    /\ Merged
    /\ bull_response = JStr(ArtifactText)
    /\ bear_response = JStr(ArtifactText)
    /\ Len(events) = 1
    /\ StartsWith(events[1], HdrBull)

\* C5: with both specialist texts empty the fallback completion is invoked
\* exactly once and its text is the response, verbatim; with a non-empty
\* specialist text it is never invoked.
C5_FallbackOnceVerbatim ==
    Merged
        => IF ~PyTruthy(bull_response) /\ ~PyTruthy(bear_response)
           THEN /\ fallbackCalls = 1
                /\ fallbackReply # NoReply
                /\ GaveText(fallbackReply)
                     => events = <<fallbackReply.content[1].text>>
           ELSE fallbackCalls = 0 /\ fallbackReply = NoReply

C5_Witness ==
    /\ Merged
    /\ ~PyTruthy(bull_response)
    /\ ~PyTruthy(bear_response)
    /\ fallbackCalls = 1
    /\ GaveText(fallbackReply)
    /\ events = <<<<" ","h","o","l","d","\n">>>>

\* C6: with both specialist texts empty and a failing fallback completion,
\* exactly one response is produced, an explicit error message, and no
\* exception escapes run_async.
C6_FallbackFailureIsText ==
    (/\ Merged
     /\ ~PyTruthy(bull_response)
     /\ ~PyTruthy(bear_response)
     /\ ~GaveText(fallbackReply))
        => /\ ~raised
           /\ Len(events) = 1
           /\ StartsWith(events[1], ErrPrefix)
           /\ fallbackReply.kind = "raise"
                => events[1] = ErrPrefix \o fallbackReply.msg

C6_Witness ==
    /\ Merged
    /\ fallbackCalls = 1
    /\ fallbackReply.kind = "raise"
    /\ events = <<ErrPrefix \o <<"d","o","w","n">>>>

\* C7: a 2xx body with a text at result.status.message.parts[] and none in
\* result.artifacts makes the client return the status-message text.
C7_StatusMessageText ==
    (/\ Called
     /\ GoodResponse(probe.reply)
     /\ ArtifactTextsOf(probe.reply.json) = {}
     /\ StatusTextsOf(probe.reply.json) # {})
        => /\ probe.out.ret.t = "str"
           /\ probe.out.ret.s \in StatusTextsOf(probe.reply.json)

\* C8: a 2xx body with a text in any part of any artifact, with or without
\* a kind marker, makes the client return that text, before any
\* status-message text; the empty string is returned only without both.
C8_AnyArtifactText ==
    (Called /\ GoodResponse(probe.reply))
        => /\ ArtifactTextsOf(probe.reply.json) # {}
                => /\ probe.out.ret.t = "str"
                   /\ probe.out.ret.s \in ArtifactTextsOf(probe.reply.json)
           /\ probe.out.ret = EmptyStr
                => /\ ArtifactTextsOf(probe.reply.json) = {}
                   /\ StatusTextsOf(probe.reply.json) = {}

C10_NotDelayedByFailingLeg ==
    (/\ Merged
     /\ agents_to_call = <<"bull_analyst", "bear_analyst">>
     /\ \/ bullCall.status = "timeout" /\ bearCall.status = "returned"
                /\ PyTruthy(bear_response)
        \/ bearCall.status = "timeout" /\ bullCall.status = "returned"
                /\ PyTruthy(bull_response))
        => elapsed <= Max(bullCall.dur, bearCall.dur)

\* the trail of the middleware for request k, and the names of its entries
EventsOf(k) ==
    LET OfRequest(e) == e.req = k
    IN  SelectSeq(tlog, OfRequest)

EvNames(k) == [i \in DOMAIN EventsOf(k) |-> EventsOf(k)[i].ev]

\* the wrapped app has returned for request k
Served(k) == \E i \in 1..Len(tlog) : tlog[i].req = k /\ tlog[i].ev = "appdone"

\* the path is that of the agent card
IsAgentCardPath(path) == Contains(path, <<".","w","e","l","l","-","k","n","o","w","n","/","a","g","e","n","t","-","c","a","r","d">>)

\* C11: a request for the agent card never gets a span: the middleware calls
\* the wrapped app once, directly, without extracting headers or starting a
\* span, whatever headers the request carries.
C11_DiscoveryNotTraced ==
    \A k \in 1..Len(wire) :
        IsAgentCardPath(wire[k].scope.path)
            => /\ EvNames(k) \in {<<>>, <<"app">>, <<"app", "appdone">>}
               /\ \A i \in 1..Len(tlog) : tlog[i].req = k => tlog[i].span = 0
               /\ wire[k].from = "external" => spans = <<>>

C11_Witness ==
    /\ Len(wire) = 1
    /\ wire[1].scope.type = "http"
    /\ wire[1].scope.path = <<"/",".","w","e","l","l","-","k","n","o","w","n","/","a","g","e","n","t","-","c","a","r","d">>
    /\ "traceparent" \in DOMAIN wire[1].scope.headers
    /\ wire[1].scope.headers["traceparent"].wellformed
    /\ EvNames(1) = <<"app", "appdone">>
    /\ stack = <<>>
    /\ spans = <<>>

\* the request carries a traceparent header the propagator can parse
HasParent(k) ==
    /\ "traceparent" \in DOMAIN wire[k].scope.headers
    /\ wire[k].scope.headers["traceparent"].wellformed

\* the span the middleware started for request k
ServerSpanOf(k) ==
    spans[(CHOOSE e \in {tlog[i] : i \in 1..Len(tlog)} :
              e.req = k /\ e.ev = "start").span]

\* all three hops of a fan-out to both specialists have been served
FullFanOut ==
    /\ Len(wire) = 3
    /\ wire[1].to = "orchestrator"
    /\ wire[2].from = "orchestrator"
    /\ wire[3].from = "orchestrator"
    /\ stack = <<>>

\* C12: when the request to the orchestrator carries a traceparent with
\* trace id T and fans out to both specialists, every span recorded on the
\* hops has trace id T.
C12_OneTraceId ==
    (FullFanOut /\ HasParent(1))
        => \A i \in 1..Len(spans) :
              spans[i].svc # "cli"
                  => spans[i].trace = wire[1].scope.headers["traceparent"].trace

\* C13: in a full fan-out the server span of each specialist has the span id
\* of the orchestrator's server span as its parent, and the three span ids
\* differ.
C13_SpecialistsAreChildren ==
    FullFanOut
        => /\ ServerSpanOf(2).parent = ServerSpanOf(1).id
           /\ ServerSpanOf(3).parent = ServerSpanOf(1).id
           /\ Cardinality({ServerSpanOf(1).id, ServerSpanOf(2).id,
                           ServerSpanOf(3).id}) = 3

\* C14: every request the CLI or the orchestrator sends downstream carries a
\* traceparent header naming the span active in the caller when it is sent,
\* whether or not the HTTP client instrumentation was installed.
C14_RequestsCarryTraceparent ==
    \A k \in 1..Len(wire) :
        wire[k].from \in {"cli", "orchestrator"}
            => /\ HasParent(k)
               /\ wire[k].active # 0
               /\ wire[k].scope.headers["traceparent"].span = wire[k].active

\* C15: for an HTTP request whose path is not a well-known one the
\* middleware extracts the context, starts one server span, calls the wrapped
\* app once and ends the span after the app has returned; the span is a
\* child of the span named by a traceparent header that parses, in its
\* trace, and the root of a new trace otherwise.
C15_OneServerSpanAroundApp ==
    \A k \in 1..Len(wire) :
        (wire[k].scope.type = "http" /\ ~Contains(wire[k].scope.path, <<".","w","e","l","l","-","k","n","o","w","n">>))
            => /\ EvNames(k) \in {<<>>, <<"extract", "start", "app">>,
                                  <<"extract", "start", "app", "appdone", "end">>}
               /\ EvNames(k) # <<>>
                    => LET s == ServerSpanOf(k)
                       IN  /\ s.kind = "SERVER"
                           /\ s.svc = wire[k].to
                           /\ s.ended <=> Served(k)
                           /\ \A i \in 1..Len(EventsOf(k)) :
                                 EventsOf(k)[i].ev \in {"start", "app", "appdone", "end"}
                                     => EventsOf(k)[i].span = s.id
                           /\ IF HasParent(k)
                              THEN /\ s.trace = wire[k].scope.headers["traceparent"].trace
                                   /\ s.parent = wire[k].scope.headers["traceparent"].span
                              ELSE /\ s.parent = 0
                                   /\ s.trace # ExternalTrace
                                   /\ \A j \in 1..(s.id - 1) : spans[j].trace # s.trace

C15_Witness ==
    /\ cli = "done"
    /\ Len(wire) = 3
    /\ Served(1) /\ Served(2) /\ Served(3)
    /\ HasParent(1)
    /\ ServerSpanOf(1).parent = wire[1].active
    /\ ServerSpanOf(1).trace = spans[1].trace
    /\ ~HasParent(2)
    /\ ServerSpanOf(2).parent = 0
    /\ ServerSpanOf(2).trace # spans[1].trace
    /\ EvNames(2) = <<"extract", "start", "app", "appdone", "end">>

Handled == probe.fn = "handle_message" /\ probe.done

\* the value under key k of a JSON object, absent standing for the default
FieldOr(v, k, default) == IF k \in DOMAIN v.o THEN v.o[k] ELSE default

\* the request is a JSON-RPC envelope of the expected types: an object whose
\* params and message, where present, are objects and whose parts, where
\* present, are a list of objects
WellTyped(req) ==
    /\ req.parsed
    /\ req.json.t = "obj"
    /\ LET params == FieldOr(req.json, "params", JObj(<<>>))
       IN  /\ params.t = "obj"
           /\ LET message == FieldOr(params, "message", JObj(<<>>))
              IN  /\ message.t = "obj"
                  /\ LET parts == FieldOr(message, "parts", JArr(<<>>))
                     IN  /\ parts.t = "arr"
                         /\ \A i \in 1..Len(parts.a) : parts.a[i].t = "obj"

\* the parts of a well-typed request
PartsOf(req) ==
    FieldOr(FieldOr(FieldOr(req.json, "params", JObj(<<>>)), "message", JObj(<<>>)),
            "parts", JArr(<<>>)).a

\* a part with a non-empty text
HasNonEmptyText(part) ==
    /\ "text" \in DOMAIN part.o
    /\ part.o.text.t = "str"
    /\ Len(part.o.text.s) > 0

\* the answer is a JSON-RPC error object with this code, in a 200 response
IsErrorAnswer(out, code) ==
    /\ out.status = 200
    /\ out.json.t = "obj"
    /\ "error" \in DOMAIN out.json.o
    /\ "result" \notin DOMAIN out.json.o
    /\ out.json.o.error.o.code = JNum(code)

C18_HandlerNeverRaises ==
    Handled
        => /\ probe.out.status = 200
           /\ probe.out.json.t = "obj"
           /\ \/ "result" \in DOMAIN probe.out.json.o
              \/ "error" \in DOMAIN probe.out.json.o

\* C19: the merged response holds the text of an internal failure only when
\* both specialist results are empty and the fallback completion failed; a
\* failure inside a specialist never reaches the user as text.
C19_ErrorTextOnlyOnTotalFailure ==
    (Merged /\ Len(events) = 1 /\ Contains(events[1], ErrPrefix))
        => /\ ~PyTruthy(bull_response)
           /\ ~PyTruthy(bear_response)
           /\ fallbackCalls = 1
           /\ ~GaveText(fallbackReply)

\* the urls of the requests posted so far
SentUrls == {sent[i].url : i \in 1..Len(sent)}

\* the routing decision names the agent
Decided(name) == \E i \in 1..Len(agents_to_call) : agents_to_call[i] = name

\* run_async is past the routing, past the bull branch, past the bear branch
PastRouting == pc \in {"bull", "bear", "merge"} \/ Merged
PastBull == pc \in {"bear", "merge"} \/ Merged
PastBear == pc = "merge" \/ Merged

\* a message/send envelope whose message has the role user and the text as
\* its single part
IsUserMessage(json, text) ==
    /\ json.o.method = JStr(<<"m","e","s","s","a","g","e","/","s","e","n","d">>)
    /\ json.o.params.o.message.o.role = JStr(<<"u","s","e","r">>)
    /\ json.o.params.o.message.o.parts = JArr(<<JObj([text |-> JStr(text)])>>)

\* C20: the routing decision is computed once per request, before any
\* downstream call; the bull endpoint is called iff the decision names
\* bull_analyst and the bear endpoint iff it names bear_analyst, each at most
\* once; every call posts the inbound query text unchanged as the single
\* text part of a message/send envelope with role user.
C20_DecisionGovernsCalls ==
    /\ decisions <= 1
    /\ PastRouting => decisions = 1
    /\ decisions = 0 => sent = <<>>
    /\ \A i, j \in 1..Len(sent) : sent[i].url = sent[j].url => i = j
    /\ SentUrls \subseteq {"bull_agent_url", "bear_agent_url"}
    /\ PastBull => ("bull_agent_url" \in SentUrls <=> Decided("bull_analyst"))
    /\ ~PastBull => "bull_agent_url" \notin SentUrls
    /\ PastBear => ("bear_agent_url" \in SentUrls <=> Decided("bear_analyst"))
    /\ ~PastBear /\ pc # "aborted" => "bear_agent_url" \notin SentUrls
    /\ \A i \in 1..Len(sent) :
          /\ sent[i].method = "POST"
          /\ IsUserMessage(sent[i].json, ExtractQuery(request))

C20_Witness ==
    /\ Merged
    /\ decisions = 1
    /\ agents_to_call = <<"bull_analyst", "bear_analyst">>
    /\ query = <<"A","n","a","l","y","Z","E"," ">>
    /\ Len(sent) = 2
    /\ sent[1].url = "bull_agent_url"
    /\ sent[2].url = "bear_agent_url"
    /\ IsUserMessage(sent[1].json, query)
    /\ IsUserMessage(sent[2].json, query)

(***************************************************************************)
(* The outbound calls of a request: timeouts, order, number.               *)
(***************************************************************************)
\* the positions in the log of the starts, and of the ends, of the calls to
Starts(to) ==
    {i \in 1..Len(outbound) : outbound[i].ev = "start" /\ outbound[i].to = to}
Ends(to) ==
    {i \in 1..Len(outbound) : outbound[i].ev = "end" /\ outbound[i].to = to}

\* the call to `to` has started and not ended after the first i entries
InFlight(to, i) ==
    Cardinality({j \in Starts(to) : j <= i}) > Cardinality({j \in Ends(to) : j <= i})

\* the two specialist endpoints
AgentUrls == {"bull_agent_url", "bear_agent_url"}

\* C21: no call made while handling a request can block indefinitely: every
\* outbound call run_async starts (the specialist posts, the routing
\* completion, the fallback completion) carries an explicit timeout.
C21_EveryCallHasTimeout ==
    \A i \in 1..Len(outbound) : outbound[i].timeout > 0

\* C23: when the routing decision is both, the bear call is started only
\* after the bull call has ended, and the two calls are never in flight at
\* the same time.
C23_BearAfterBull ==
    /\ \A i \in 1..Len(outbound) :
          ~(InFlight("bull_agent_url", i) /\ InFlight("bear_agent_url", i))
    /\ (Decided("bull_analyst") /\ Decided("bear_analyst"))
          => \A i \in Starts("bear_agent_url") :
                \E j \in Ends("bull_agent_url") : j < i

C23_Witness ==
    /\ Merged
    /\ agents_to_call = <<"bull_analyst", "bear_analyst">>
    /\ \E i \in Ends("bull_agent_url") : i + 1 \in Starts("bear_agent_url")
    /\ Cardinality(Ends("bear_agent_url")) = 1

\* C24: for a request with a non-empty query the routing decision is never
\* empty; at least one and at most two specialist calls are issued, at most
\* one routing completion and at most one fallback completion; the fallback
\* completion starts only after every issued specialist call has ended, and
\* only when each of them gave an empty result.
C24_CallCounts ==
    Len(query) > 0 =>
        /\ PastRouting => Len(agents_to_call) \in 1..2
        /\ Merged => Len(sent) \in 1..2
        /\ Len(sent) <= 2
        /\ \A u \in AgentUrls : Cardinality(Starts(u)) <= 1
        /\ Cardinality(Starts("routing")) <= 1
        /\ Cardinality(Starts("fallback")) <= 1
        /\ \A i \in Starts("fallback") :
              /\ \A j \in 1..Len(outbound) :
                    outbound[j].to \in AgentUrls => j < i
              /\ \A u \in AgentUrls : ~InFlight(u, i)
              /\ \E u \in AgentUrls : Ends(u) # {}
              /\ ~PyTruthy(bull_response)
              /\ ~PyTruthy(bear_response)

C24_Witness ==
    /\ Merged
    /\ Cardinality(Starts("routing")) = 1
    /\ Len(sent) = 2
    /\ Cardinality(Starts("fallback")) = 1
    /\ outbound[Len(outbound)].to = "fallback"

\* the request holds no text part with text and no query in the session state
NoQueryIn(req) ==
    /\ \A i \in 1..Len(req.parts) : Len(req.parts[i]) = 0
    /\ Len(req.state) = 0

\* C25: when no query text can be extracted from the request, run_async
\* yields exactly one event, with the text "No query provided", and makes no
\* model call and no specialist call.
C25_NoQueryNoCalls ==
    (pc # "start" /\ NoQueryIn(request))
        => /\ pc = "done"
           /\ events = <<<<"N","o"," ","q","u","e","r","y"," ",
                           "p","r","o","v","i","d","e","d">>>>
           /\ routeCalls = 0
           /\ fallbackCalls = 0
           /\ decisions = 0
           /\ sent = <<>>
           /\ outbound = <<>>

C25_Witness ==
    /\ pc = "done"
    /\ request = [parts |-> <<<<>>>>, state |-> <<>>]
    /\ Len(events) = 1
    /\ outbound = <<>>

(***************************************************************************)
(* The identifiers of the requests posted.                                 *)
(***************************************************************************)
\* the requests posted by the orchestrator and by the runs of the CLI
AllPosts ==
    sent \o (IF probe.fn = "query_orchestrator" THEN probe.out ELSE <<>>)

RequestId(p) == p.json.o.id
MessageId(p) == p.json.o.params.o.message.o.messageId

\* C22: across any sequence of outbound agent calls, from the orchestrator
\* or from the CLI, no two calls carry the same messageId or the same
\* JSON-RPC request id.
C22_FreshIds ==
    \A i, j \in 1..Len(AllPosts) :
        i # j => /\ RequestId(AllPosts[i]) # RequestId(AllPosts[j])
                 /\ MessageId(AllPosts[i]) # MessageId(AllPosts[j])

(***************************************************************************)
(* The bear agent.                                                         *)
(***************************************************************************)
BearRan == probe.fn = "bear_run_async" /\ probe.done

\* the tool_use blocks of an answer of the model, in order
ToolBlocks(m) ==
    IF m.kind = "ok"
    THEN SelectSeq(m.content, LAMBDA b : b.type = "tool_use")
    ELSE <<>>

\* user_content holds a part with text
HasQuery(parts) == \E i \in 1..Len(parts) : Len(parts[i]) > 0

\* the text of the answer of the model is empty: of the text blocks of the
\* first answer when it asks for no tool, of the first block of the second
\* answer when it does
EmptyAnswer(m1, m2) ==
    /\ m1.kind = "ok"
    /\ IF ToolBlocks(m1) = <<>>
       THEN \A i \in 1..Len(m1.content) : m1.content[i].text = <<>>
       ELSE /\ m2.kind = "ok"
            /\ Len(m2.content) > 0
            /\ m2.content[1].type = "text"
            /\ m2.content[1].text = <<>>

\* C26: for every request the bear agent yields exactly one event, with a
\* non-empty text, and does not raise; it makes at most two model calls, the
\* second iff the first answer holds a tool_use block; it executes each tool
\* asked for once, an unknown name or a failing tool becoming a result
\* string; an empty answer of the model is replaced by "Unable to generate
\* analysis.".
C26_BearAlwaysAnswers ==
    BearRan =>
        LET o == probe.out
            asked == ToolBlocks(probe.m1)
        IN  /\ ~o.raised
            /\ Len(o.events) = 1
            /\ Len(o.events[1]) > 0
            /\ o.calls <= 2
            /\ ~HasQuery(probe.parts) => o.calls = 0 /\ o.tools = <<>>
            /\ HasQuery(probe.parts) =>
                  /\ o.calls >= 1
                  /\ o.calls = 2 <=> asked # <<>>
                  /\ Len(o.tools) = Len(asked)
                  /\ \A i \in 1..Len(asked) :
                        IF asked[i].name \notin
                              {<<"r","i","s","k","_","s","c","a","n","n","e","r">>,
                               <<"d","o","w","n","s","i","d","e","_","c","a","t","a",
                                 "l","y","s","t","_","f","i","n","d","e","r">>,
                               <<"e","x","i","t","_","s","i","g","n","a","l","_","m",
                                 "o","n","i","t","o","r">>}
                        THEN o.tools[i] = <<"T","o","o","l"," ">> \o asked[i].name
                                          \o <<" ","n","o","t"," ","f","o","u","n","d">>
                        ELSE IF asked[i].does.ok THEN o.tools[i] = asked[i].does.v
                        ELSE StartsWith(o.tools[i],
                                        <<"E","r","r","o","r"," ","e","x","e","c","u",
                                          "t","i","n","g"," ">> \o asked[i].name)
                  /\ EmptyAnswer(probe.m1, probe.m2) =>
                        o.events[1] = <<"U","n","a","b","l","e"," ","t","o"," ","g",
                                        "e","n","e","r","a","t","e"," ","a","n","a",
                                        "l","y","s","i","s",".">>

\* two tools asked for, one unknown and one failing, and an empty second answer
C26_Witness ==
    /\ BearRan
    /\ HasQuery(probe.parts)
    /\ probe.out.calls = 2
    /\ Len(probe.out.tools) = 2
    /\ \E i \in 1..2 : StartsWith(probe.out.tools[i], <<"T","o","o","l"," ","n","e","w","s">>)
    /\ \E i \in 1..2 : StartsWith(probe.out.tools[i], <<"E","r","r","o","r">>)
    /\ EmptyAnswer(probe.m1, probe.m2)
    /\ Len(probe.out.events) = 1
    /\ StartsWith(probe.out.events[1], <<"U","n","a","b","l","e">>)

====
